---- MODULE Spec2Model ----
(***************************************************************************)
(* Model of enh::queued_process (queued_process.enh.h): a backlog of       *)
(* messages, one worker thread running queue_exec_process, any number of   *)
(* threads calling postMessage, and one owning thread calling the control  *)
(* functions start_queue_process, stopQueue, WaitForQueueStop, safe_join,  *)
(* force_join and WaitForQueueEmpty.                                       *)
(*                                                                         *)
(* Granularity: one step per atomic load/store and one step per region     *)
(* held under mtxQueue.  cvQueue.wait is two steps: entering the wait      *)
(* (the mutex is released and the thread blocks) and, once notified,       *)
(* re-acquiring the mutex.                                                 *)
(***************************************************************************)
EXTENDS Integers, Sequences, FiniteSets, TLC

\* ---- bounds ----------------------------------------------------------
MaxPosts  == 3      \* total number of postMessage calls
MaxStarts == 2      \* total number of successful start_queue_process calls
MaxRaceCalls == 2   \* total number of concurrent start_queue_process calls
MaxTicks  == 2      \* largest value of elapsed_cycles
MaxStops  == 2      \* total number of stop() and force_join() calls
MaxPeriod == 8      \* largest period a timer template is given
MaxLower  == 2      \* largest magnitude of a lower limit of confined_base
MaxUpper  == 9      \* largest upper limit of confined_base
MaxArg    == 20     \* largest argument of add(n) and sub(n)
MaxCalls  == 3      \* number of member function calls on a confined_base

Posters  == {"p1", "p2"}
Payloads == {"ok", "bad"}

\* tristate (error_base.enh.h): GOOD = 1, ERROR = 0, PREV_ERR = -1
GOOD     == 1
ERROR    == 0
PREV_ERR == 0 - 1

\* operator !(tristate): true when the value is not GOOD
Not(e) == e /= GOOD

NoProc == "none"
NoMsg  == <<0, "none">>

\* The processing method registered in the model: fatal on a "bad" payload.
msgProcApply(m) == IF m[2] = "bad" THEN ERROR ELSE GOOD

\* the functions an application can hand to RegisterProc: "proc" above, and
\* "other", which accepts every message
Procs == {"proc", "other"}

\* msgProc(front) for the installed function f
Applied(f, m) == IF f = "other" THEN GOOD ELSE msgProcApply(m)

VARIABLES
    QueuedMessage,   \* std::queue<info_type>
    isUpdated,       \* std::atomic<bool>
    QueueStop,       \* std::atomic<bool>
    isQueueActive,   \* std::atomic<bool>
    msgProc,         \* processing_method: NoProc or "proc"
    wpc,             \* queue_thread: "none" (not joinable), a position in
                     \* queue_exec_process, or "done" (returned, joinable)
    wEmpty,          \* local 'empty' of queue_exec_process
    front,           \* local 'front' of queue_exec_process
    wret,            \* value returned by queue_exec_process
    cop,             \* control function the owning thread is inside
    cpc,             \* its position: "idle", or the statement it is about
                     \* to execute, or "destroyed" after the destructor
    cret,            \* <<value>> returned by the owner's last call of
                     \* start_queue_process, <<>> once another call is made
    ppc,             \* position of each posting thread in postMessage
    nextId,          \* history: identity of the next posted message
    processed,       \* history: messages passed to msgProc, in order
    runBase,         \* history: Len(processed) when the worker was spawned
    starts,          \* history: number of workers spawned
    snapOp,          \* history: stop operation that took the snapshot
    snap,            \* history: ids pending when that operation began
    lateIds,         \* history: ids posted since the worker returned (or
                     \* while WaitForQueueStop was clearing), until a start
    \* -- enh::timer (timer.enh.h) --
    stopTimer,       \* std::atomic<bool>
    isTimerActive,   \* bool
    elapsed_cycles,  \* unsigned long long
    tpc,             \* timerThread: "none" (not joinable), a position in
                     \* loop / single_period, or "done" (returned, joinable)
    tlife,           \* "absent", "live", "destroyed" (after ~timer), or
                     \* "terminated" (std::terminate was called)
    twop,            \* member function each client thread is inside
    twpc,            \* its position
    expected,        \* its argument 'expected' of wait(unsigned long long)
    tresult,         \* <<value>> its last wait returned
    tcret,           \* <<value>> its last start_timer returned
    tstops,          \* history: number of stop() and force_join() calls
    wfexp,           \* each client's local 'expected' of wait_for
    tickv,           \* the value of elapsed_cycles that ++elapsed_cycles read
    timer_next,      \* time_pt timer_next, in periods after timer_start
    stopReq,         \* history: stop() was called since the last
                     \* start_timer began to start the timer
    \* -- start_queue_process called from several threads --
    spc,             \* position of each calling thread
    sret,            \* <<value>> its last start_queue_process returned
    snew,            \* the std::thread temporary it constructed (index in rw)
    rw,              \* position of every thread the callers construct,
                     \* "unborn" until it is constructed
    rthread,         \* queue_thread: 0 (not joinable) or an index in rw
    rcalls,          \* history: number of calls made
    \* -- enh::timer<period, unit>, the template --
    unit,            \* template argument time_unit
    period,          \* template argument _per
    inst,            \* how far the translation has got with the template
    \* -- enh::confined_base<integral> --
    integral,        \* template argument: the type of value
    uLimit,          \* the value uLimit() returns
    lLimit,          \* the value lLimit() returns
    value,           \* value_type value
    cbop,            \* the last member function called
    cbarg,           \* its argument
    cbret,           \* the value it returned
    cbout,           \* how it ended: "returned", "threw" or "trapped"
    cbcalls          \* history: number of calls made

timerVars == <<stopTimer, isTimerActive, elapsed_cycles, tpc, tlife, twop,
               twpc, expected, tresult, tcret, tstops, wfexp, tickv,
               timer_next, stopReq>>

raceVars == <<spc, sret, snew, rw, rthread, rcalls>>

templateVars == <<unit, period, inst>>

confinedVars == <<integral, uLimit, lLimit, value, cbop, cbarg, cbret, cbout,
                  cbcalls>>

otherVars == <<timerVars, raceVars, templateVars, confinedVars>>

vars == <<QueuedMessage, isUpdated, QueueStop, isQueueActive, msgProc, wpc,
          wEmpty, front, wret, cop, cpc, cret, ppc, nextId, processed,
          runBase, starts, snapOp, snap, lateIds, otherVars>>

queueVars == <<QueuedMessage, isUpdated, QueueStop, isQueueActive, msgProc>>
workerVars == <<wpc, wEmpty, front, wret>>
ctlVars == <<cop, cpc, cret>>
histVars == <<nextId, processed, runBase, starts, snapOp, snap, lateIds>>

\* ---- helpers ---------------------------------------------------------
Ids(s) == { s[i][1] : i \in DOMAIN s }

ProcessedIds == Ids(processed)

\* queue_thread.joinable()
Joinable == wpc /= "none"

\* the worker thread exists and has not returned
WorkerAlive == wpc \notin {"none", "done"}

\* ids posted and neither discarded nor yet passed to msgProc
Pending == Ids(QueuedMessage) \cup (IF wpc = "proc" THEN {front[1]} ELSE {})

\* id of the message the worker has already decided, under the mutex, to
\* take next (stopNow was false and front()/pop() comes next)
Committed ==
    IF wpc = "pop" /\ QueuedMessage /= <<>> THEN {Head(QueuedMessage)[1]}
    ELSE {}

\* variant: the notification wakes nobody
NotifyAll_None(pc) == pc

\* cvQueue.notify_all(): every thread blocked in cvQueue.wait is released
NotifyAll(pc) == IF pc = "waiting" THEN "woken" ELSE pc

\* the threads that call member functions of one enh::timer
Clients == {"c1", "c2"}

\* no enh::timer instance exists
NoTimer ==
    /\ stopTimer = FALSE
    /\ isTimerActive = FALSE
    /\ elapsed_cycles = 0
    /\ tpc = "absent"
    /\ tlife = "absent"
    /\ twop = [c \in Clients |-> "none"]
    /\ twpc = [c \in Clients |-> "absent"]
    /\ expected = [c \in Clients |-> 0]
    /\ tresult = [c \in Clients |-> <<>>]
    /\ tcret = [c \in Clients |-> <<>>]
    /\ tstops = 0
    /\ wfexp = [c \in Clients |-> 0]
    /\ tickv = 0
    /\ timer_next = 0
    /\ stopReq = FALSE

Starters == {"s1", "s2"}

\* one std::thread can be constructed by each call
RaceWorkers == 1..MaxRaceCalls

\* no thread other than the owner calls a control function
NoRace ==
    /\ spc = [s \in Starters |-> "absent"]
    /\ sret = [s \in Starters |-> <<>>]
    /\ snew = [s \in Starters |-> 0]
    /\ rw = [w \in RaceWorkers |-> "unborn"]
    /\ rthread = 0
    /\ rcalls = 0

\* no enh::timer template is being instantiated
NoTemplate ==
    /\ unit = "none"
    /\ period = 0
    /\ inst = "absent"

\* there is no confined_base instance
NoConfined ==
    /\ integral = "none"
    /\ uLimit = 0
    /\ lLimit = 0
    /\ value = 0
    /\ cbop = "none"
    /\ cbarg = 0
    /\ cbret = 0
    /\ cbout = "absent"
    /\ cbcalls = 0

\* ---- construction ----------------------------------------------------
\* queued_process() and queued_process(processing_method)
Init ==
    /\ QueuedMessage = <<>>
    /\ isUpdated = FALSE
    /\ QueueStop = FALSE
    /\ isQueueActive = FALSE
    /\ msgProc \in {NoProc, "proc"}
    /\ wpc = "none"
    /\ wEmpty = FALSE
    /\ front = NoMsg
    /\ wret = GOOD
    /\ cop = "none"
    /\ cpc = "idle"
    /\ cret = <<>>
    /\ ppc = [p \in Posters |-> "idle"]
    /\ nextId = 1
    /\ processed = <<>>
    /\ runBase = 0
    /\ starts = 0
    /\ snapOp = "none"
    /\ snap = {}
    /\ lateIds = {}
    /\ NoTimer
    /\ NoRace
    /\ NoTemplate
    /\ NoConfined

\* ---- queue_exec_process (the worker thread) ---------------------------
\* if (!msgProc) return tristate::ERROR;
WEntry ==
    /\ wpc = "entry"
    /\ IF msgProc = NoProc
       THEN wpc' = "done" /\ wret' = ERROR
       ELSE wpc' = "outer" /\ wret' = wret
    /\ UNCHANGED <<queueVars, wEmpty, front, ctlVars, ppc, histVars>>
    /\ UNCHANGED otherVars

\* while (!(QueueStop.load())) ... return (tristate::GOOD);
WOuter ==
    /\ wpc = "outer"
    /\ IF QueueStop
       THEN wpc' = "done" /\ wret' = GOOD
       ELSE wpc' = "inner" /\ wret' = wret
    /\ UNCHANGED <<queueVars, wEmpty, front, ctlVars, ppc, histVars>>
    /\ UNCHANGED otherVars

\* while (!(isUpdated.load()))
WInner ==
    /\ wpc = "inner"
    /\ wpc' = IF isUpdated THEN "clear" ELSE "wait_enter"
    /\ UNCHANGED <<queueVars, wEmpty, front, wret, ctlVars, ppc, histVars>>
    /\ UNCHANGED otherVars

\* std::unique_lock lock(mtxQueue); cvQueue.wait(lock): blocks, mutex released
WWait ==
    /\ wpc = "wait_enter"
    /\ wpc' = "waiting"
    /\ UNCHANGED <<queueVars, wEmpty, front, wret, ctlVars, ppc, histVars>>
    /\ UNCHANGED otherVars

\* cvQueue.wait may return without a notification (spurious wake-up)
WSpurious ==
    /\ wpc = "waiting"
    /\ wpc' = "woken"
    /\ UNCHANGED <<queueVars, wEmpty, front, wret, ctlVars, ppc, histVars>>
    /\ UNCHANGED otherVars

\* wait re-acquires the mutex; bool empty = QueuedMessage.empty(); unlock
WWoken ==
    /\ wpc = "woken"
    /\ wEmpty' = (QueuedMessage = <<>>)
    /\ wpc' = "chk_upd"
    /\ UNCHANGED <<queueVars, front, wret, ctlVars, ppc, histVars>>
    /\ UNCHANGED otherVars

\* if (!(isUpdated.load()) && ...   (first operand)
WChkUpd ==
    /\ wpc = "chk_upd"
    /\ wpc' = IF isUpdated THEN "inner" ELSE "chk_stop"
    /\ UNCHANGED <<queueVars, wEmpty, front, wret, ctlVars, ppc, histVars>>
    /\ UNCHANGED otherVars

\* ... && QueueStop.load() && empty) return (tristate::GOOD);
WChkStop ==
    /\ wpc = "chk_stop"
    /\ IF QueueStop /\ wEmpty
       THEN wpc' = "done" /\ wret' = GOOD
       ELSE wpc' = "inner" /\ wret' = wret
    /\ UNCHANGED <<queueVars, wEmpty, front, ctlVars, ppc, histVars>>
    /\ UNCHANGED otherVars

\* isUpdated = false;
WClear ==
    /\ wpc = "clear"
    /\ isUpdated' = FALSE
    /\ wpc' = "stopnow"
    /\ UNCHANGED <<QueuedMessage, QueueStop, isQueueActive, msgProc, wEmpty,
                   front, wret, ctlVars, ppc, histVars>>
    /\ UNCHANGED otherVars

\* the value first given to stopNow, under the mutex
StopNowFirst == QueuedMessage = <<>> \/ QueueStop

\* stopNow = QueuedMessage.empty() || QueueStop.load();  while (!stopNow)
WStopNow ==
    /\ wpc = "stopnow"
    /\ wpc' = IF StopNowFirst THEN "outer" ELSE "pop"
    /\ UNCHANGED <<queueVars, wEmpty, front, wret, ctlVars, ppc, histVars>>
    /\ UNCHANGED otherVars

\* variant: the newest message is taken instead of the oldest
Taken_Newest(q) == q[Len(q)]

\* variant: front() without pop()
Left_NoPop(q) == q

\* the message taken by front() and the backlog left by pop()
Taken(q) == Head(q)
Left(q)  == Tail(q)

\* front = QueuedMessage.front(); QueuedMessage.pop();  under the mutex.
\* front()/pop() on an empty queue is undefined: any message, backlog kept.
WPop ==
    /\ wpc = "pop"
    /\ IF QueuedMessage = <<>>
       THEN /\ front' \in {<<0, pl>> : pl \in Payloads}
            /\ QueuedMessage' = QueuedMessage
       ELSE /\ front' = Taken(QueuedMessage)
            /\ QueuedMessage' = Left(QueuedMessage)
    /\ wpc' = "proc"
    /\ UNCHANGED <<isUpdated, QueueStop, isQueueActive, msgProc, wEmpty, wret,
                   ctlVars, ppc, histVars>>
    /\ UNCHANGED otherVars

\* variant: the result of msgProc is ignored
AfterProc_Ignored(ret) == "recheck"

\* where the worker goes on the result of msgProc(front)
AfterProc(ret) == IF Not(ret) THEN "done" ELSE "recheck"

\* tristate ret = msgProc(front); if (!ret) return (tristate::ERROR);
WProc ==
    /\ wpc = "proc"
    /\ processed' = Append(processed, front)
    /\ wpc' = AfterProc(Applied(msgProc, front))
    /\ wret' = IF wpc' = "done" THEN ERROR ELSE wret
    /\ front' = NoMsg
    /\ UNCHANGED <<queueVars, wEmpty, ctlVars, ppc, nextId, runBase, starts,
                   snapOp, snap, lateIds>>
    /\ UNCHANGED otherVars

\* variant: the drain loop does not test the backlog again
StopNowAgain_Never == FALSE

\* the value given to stopNow at the end of the drain loop's body
StopNowAgain == QueuedMessage = <<>>

\* std::lock_guard temp_lock(mtxQueue); stopNow = QueuedMessage.empty();
WRecheck ==
    /\ wpc = "recheck"
    /\ wpc' = IF StopNowAgain THEN "outer" ELSE "pop"
    /\ UNCHANGED <<queueVars, wEmpty, front, wret, ctlVars, ppc, histVars>>
    /\ UNCHANGED otherVars

Worker ==
    \/ WEntry \/ WOuter \/ WInner \/ WWait \/ WWoken \/ WChkUpd \/ WChkStop
    \/ WClear \/ WStopNow \/ WPop \/ WProc \/ WRecheck

\* ---- postMessage ------------------------------------------------------
\* variant: the message is put at the head of the backlog
Pushed_AtHead(q, m) == <<m>> \o q

\* the backlog after QueuedMessage.push(Message)
Pushed(q, m) == Append(q, m)

\* variant: the worker unlocks mtxQueue only after msgProc has returned
WorkerLocked_Proc == {"proc"}

\* the positions at which the worker owns mtxQueue from one step to the
\* next: none; mtxQueue.unlock() precedes the call of msgProc, and every
\* other locked block of queue_exec_process is a single step
WorkerLocked == {}

\* { lock_guard; QueuedMessage.push(Message); isUpdated = true; }
\* the lock_guard is acquired only while the worker does not own mtxQueue
PostPush(p, pl) ==
    /\ ppc[p] = "idle"
    /\ wpc \notin WorkerLocked
    /\ cpc /= "destroyed"
    /\ nextId <= MaxPosts
    /\ QueuedMessage' = Pushed(QueuedMessage, <<nextId, pl>>)
    /\ isUpdated' = TRUE
    /\ nextId' = nextId + 1
    /\ ppc' = [ppc EXCEPT ![p] = "notify"]
    /\ lateIds' = IF wpc = "done" \/ (wpc = "none" /\ cpc = "wfs_clear")
                  THEN lateIds \cup {nextId} ELSE lateIds
    /\ UNCHANGED <<QueueStop, isQueueActive, msgProc, workerVars, ctlVars,
                   processed, runBase, starts, snapOp, snap>>
    /\ UNCHANGED otherVars

\* cvQueue.notify_all(); return;
PostNotify(p) ==
    /\ ppc[p] = "notify"
    /\ wpc' = NotifyAll(wpc)
    /\ ppc' = [ppc EXCEPT ![p] = "idle"]
    /\ UNCHANGED <<queueVars, wEmpty, front, wret, ctlVars, histVars>>
    /\ UNCHANGED otherVars

\* ---- control functions (the owning thread) ----------------------------
ControlOps == {"start_queue_process", "stopQueue", "WaitForQueueStop",
               "safe_join", "force_join", "WaitForQueueEmpty",
               "~queued_process"}

\* the first statement of each control function
EntryOf(op) ==
    CASE op = "start_queue_process" -> "start_check"
      [] op = "stopQueue"           -> "stop_set"
      [] op = "WaitForQueueStop"    -> "wfs_check"
      [] op = "safe_join"           -> "sj_check"
      [] op = "force_join"          -> "fj_check"
      [] op = "WaitForQueueEmpty"   -> "wfe_poll"
      [] op = "~queued_process"     -> "fj_check"

\* the owner calls a control function; the destructor (which is
\* 'force_join()') is called when no other thread is inside a member function
Call(op) ==
    /\ cpc = "idle"
    /\ op = "start_queue_process" => starts < MaxStarts
    /\ op = "~queued_process" => \A p \in Posters : ppc[p] = "idle"
    /\ cop' = op
    /\ cpc' = EntryOf(op)
    /\ UNCHANGED <<queueVars, workerVars, ppc, histVars>>
    /\ cret' = <<>>
    /\ UNCHANGED otherVars

\* the control function returns; after the destructor the instance is gone
Return ==
    /\ cop' = "none"
    /\ cpc' = IF cop = "~queued_process" THEN "destroyed" ELSE "idle"

\* RegisterProc(in): msgProc = in;
Install(in) ==
    /\ cpc = "idle"
    /\ msgProc' = in
    /\ UNCHANGED <<QueuedMessage, isUpdated, QueueStop, isQueueActive,
                   workerVars, ctlVars, ppc, histVars>>
    /\ UNCHANGED otherVars

\* the application registers its one processing function
RegisterProc == Install("proc")

\* isQueueRunning()
isQueueRunning == isQueueActive

\* variant: start_queue_process without the test of msgProc
StartRefused_NoProcTest == isQueueActive

\* variant: start_queue_process without the isQueueRunning() test
StartRefused_NoRunningTest == msgProc = NoProc

\* the two early returns of start_queue_process
StartRefused == msgProc = NoProc \/ isQueueRunning

\* if (!msgProc) return ERROR; if (isQueueRunning()) return ERROR;
\* QueueStop = false; queue_thread = std::thread(...);
\* Assigning to a joinable std::thread calls std::terminate.
CStartCheck ==
    /\ cpc = "start_check"
    /\ IF StartRefused
       THEN /\ Return
            /\ UNCHANGED <<queueVars, workerVars, ppc, histVars>>
       ELSE /\ QueueStop' = FALSE
            /\ cop' = cop
            /\ IF Joinable
               THEN /\ cpc' = "terminated"
                    /\ UNCHANGED <<wpc, runBase, starts, snapOp, snap,
                                   lateIds>>
               ELSE /\ cpc' = "start_mark"
                    /\ wpc' = "entry"
                    /\ runBase' = Len(processed)
                    /\ starts' = starts + 1
                    /\ snapOp' = "none"
                    /\ snap' = {}
                    /\ lateIds' = {}
            /\ UNCHANGED <<QueuedMessage, isUpdated, isQueueActive, msgProc,
                           wEmpty, front, wret, ppc, nextId, processed>>
    /\ cret' = IF StartRefused THEN <<ERROR>> ELSE cret
    /\ UNCHANGED otherVars

\* isQueueActive = true; return (tristate::GOOD);
CStartMark ==
    /\ cpc = "start_mark"
    /\ isQueueActive' = TRUE
    /\ Return
    /\ UNCHANGED <<QueuedMessage, isUpdated, QueueStop, msgProc, workerVars,
                   ppc, histVars>>
    /\ cret' = <<GOOD>>
    /\ UNCHANGED otherVars

\* stopQueue: QueueStop = true;
CStopSet ==
    /\ cpc = "stop_set"
    /\ QueueStop' = TRUE
    /\ cpc' = "stop_notify"
    /\ CASE cop = "force_join" ->
              snapOp' = "force_join" /\ snap' = Ids(QueuedMessage) \ Committed
         [] cop = "stopQueue" /\ WorkerAlive ->
              snapOp' = "stopQueue" /\ snap' = Pending
         [] OTHER -> UNCHANGED <<snapOp, snap>>
    /\ UNCHANGED <<QueuedMessage, isUpdated, isQueueActive, msgProc,
                   workerVars, cop, ppc, nextId, processed, runBase, starts,
                   lateIds>>
    /\ UNCHANGED <<cret, otherVars>>

\* stopQueue: cvQueue.notify_all();  then back in the caller
CStopNotify ==
    /\ cpc = "stop_notify"
    /\ wpc' = NotifyAll(wpc)
    /\ IF cop = "stopQueue"
       THEN Return
       ELSE cop' = cop /\ cpc' = "wfs_check"
    /\ UNCHANGED <<queueVars, wEmpty, front, wret, ppc, histVars>>
    /\ UNCHANGED <<cret, otherVars>>

\* variant: WaitForQueueStop never finds anything to join
MustJoin_Never == FALSE

\* WaitForQueueStop: if (queue_thread.joinable() || isQueueRunning())
MustJoin == Joinable \/ isQueueRunning

CWfsCheck ==
    /\ cpc = "wfs_check"
    /\ IF MustJoin
       THEN cop' = cop /\ cpc' = "wfs_join"
       ELSE Return
    /\ UNCHANGED <<queueVars, workerVars, ppc, histVars>>
    /\ UNCHANGED <<cret, otherVars>>

\* queue_thread.join(); isQueueActive = false; QueueStop = false;
\* join blocks until queue_exec_process has returned; join on a thread
\* that is not joinable throws out of a noexcept function (std::terminate).
CWfsJoin ==
    /\ cpc = "wfs_join"
    /\ wpc \in {"none", "done"}
    /\ IF wpc = "none"
       THEN /\ cpc' = "terminated"
            /\ UNCHANGED <<wpc, isQueueActive, QueueStop>>
       ELSE /\ cpc' = "wfs_clear"
            /\ wpc' = "none"
            /\ isQueueActive' = FALSE
            /\ QueueStop' = FALSE
    /\ UNCHANGED <<QueuedMessage, isUpdated, msgProc, wEmpty, front, wret,
                   cop, ppc, histVars>>
    /\ UNCHANGED <<cret, otherVars>>

\* variant: WaitForQueueStop leaves the backlog as it is
Cleared_Kept(q) == q

\* the backlog after 'QueuedMessage = std::queue<instruct>()'
Cleared(q) == <<>>

\* std::lock_guard lock(mtxQueue); QueuedMessage = std::queue<instruct>();
\* and the return of WaitForQueueStop and of its caller
CWfsClear ==
    /\ cpc = "wfs_clear"
    /\ QueuedMessage' = Cleared(QueuedMessage)
    /\ Return
    /\ UNCHANGED <<isUpdated, QueueStop, isQueueActive, msgProc, workerVars,
                   ppc, histVars>>
    /\ UNCHANGED <<cret, otherVars>>

\* safe_join: if (!isQueueRunning()) return; WaitForQueueEmpty(ns); ...
CSafeJoinCheck ==
    /\ cpc = "sj_check"
    /\ IF ~isQueueRunning
       THEN /\ Return
            /\ UNCHANGED <<snapOp, snap>>
       ELSE /\ cop' = cop
            /\ cpc' = "wfe_poll"
            /\ snapOp' = "safe_join"
            /\ snap' = Pending
    /\ UNCHANGED <<queueVars, workerVars, ppc, nextId, processed, runBase,
                   starts, lateIds>>
    /\ UNCHANGED <<cret, otherVars>>

\* force_join: if (!isQueueRunning()) return; stopQueue(); ...
CForceJoinCheck ==
    /\ cpc = "fj_check"
    /\ IF ~isQueueRunning
       THEN Return
       ELSE cop' = cop /\ cpc' = "stop_set"
    /\ UNCHANGED <<queueVars, workerVars, ppc, histVars>>
    /\ UNCHANGED <<cret, otherVars>>

\* variant: WaitForQueueEmpty returns after its first poll
PollDone_NoWait == TRUE

\* the value of 'ret' in WaitForQueueEmpty
PollDone == QueuedMessage = <<>>

\* WaitForQueueEmpty: sleep_for(ns); { lock_guard; ret = empty(); }
\* if (ret) return;  -- a poll that finds the backlog non-empty changes
\* nothing and is repeated, so only the successful poll is a step.
CWfePoll ==
    /\ cpc = "wfe_poll"
    /\ PollDone
    /\ IF cop = "safe_join"
       THEN cop' = cop /\ cpc' = "stop_set"
       ELSE Return
    /\ UNCHANGED <<queueVars, workerVars, ppc, histVars>>
    /\ UNCHANGED <<cret, otherVars>>

\* the owner continues inside a control function
ControlStep ==
    \/ CStartCheck \/ CStartMark \/ CStopSet \/ CStopNotify \/ CWfsCheck
    \/ CWfsJoin \/ CWfsClear \/ CSafeJoinCheck \/ CForceJoinCheck
    \/ CWfePoll

Next ==
    \/ Worker
    \/ WSpurious
    \/ \E p \in Posters, pl \in Payloads : PostPush(p, pl)
    \/ \E p \in Posters : PostNotify(p)
    \/ \E op \in ControlOps : Call(op)
    \/ RegisterProc
    \/ ControlStep

Spec == Init /\ [][Next]_vars

\* Scheduling: a thread that can take a step eventually takes it, and a
\* postMessage that was begun completes.  Whether and when the application
\* calls postMessage or a control function is not constrained, and a
\* spurious wake-up is never guaranteed.
Fairness ==
    /\ WF_vars(Worker)
    /\ WF_vars(ControlStep)
    /\ \A p \in Posters : WF_vars(PostNotify(p))

FairSpec == Init /\ [][Next]_vars /\ Fairness

TypeOK ==
    /\ isUpdated \in BOOLEAN /\ QueueStop \in BOOLEAN
    /\ isQueueActive \in BOOLEAN
    /\ cpc /= "terminated"
    /\ Len(QueuedMessage) <= MaxPosts

\* ---- RegisterProc with more than one function -------------------------
\* An application that has two processing functions and calls RegisterProc
\* at any time; it posts and starts the queue but never stops it.
RegNext ==
    \/ Worker
    \/ WSpurious
    \/ \E p \in Posters, pl \in Payloads : PostPush(p, pl)
    \/ \E p \in Posters : PostNotify(p)
    \/ Call("start_queue_process")
    \/ CStartCheck
    \/ CStartMark
    \/ \E in \in Procs : Install(in)

RegSpec == Init /\ [][RegNext]_vars

\* ---- start_queue_process called concurrently ----------------------------
\* A freshly constructed instance on which threads call start_queue_process
\* and stopQueue at the same time.  No message is posted here, so the
\* backlog stays empty and isUpdated stays false.
RaceInit ==
    /\ QueuedMessage = <<>>
    /\ isUpdated = FALSE
    /\ QueueStop = FALSE
    /\ isQueueActive = FALSE
    /\ msgProc \in {NoProc, "proc"}
    /\ wpc = "absent"
    /\ wEmpty = FALSE
    /\ front = NoMsg
    /\ wret = GOOD
    /\ cop = "none"
    /\ cpc = "absent"
    /\ cret = <<>>
    /\ ppc = [p \in Posters |-> "absent"]
    /\ nextId = 1
    /\ processed = <<>>
    /\ runBase = 0
    /\ starts = 0
    /\ snapOp = "none"
    /\ snap = {}
    /\ lateIds = {}
    /\ NoTimer
    /\ NoTemplate
    /\ NoConfined
    /\ spc = [s \in Starters |-> "idle"]
    /\ sret = [s \in Starters |-> <<>>]
    /\ snew = [s \in Starters |-> 0]
    /\ rw = [w \in RaceWorkers |-> "unborn"]
    /\ rthread = 0
    /\ rcalls = 0

raceFrame == <<QueuedMessage, isUpdated, wpc, wEmpty, front, wret, cop, cpc,
               cret, ppc, histVars, timerVars, templateVars, confinedVars>>

\* std::terminate has been called
Terminated == \E s \in Starters : spc[s] = "terminated"

\* threads that were constructed and have not returned
AliveWorkers == { w \in RaceWorkers : rw[w] \notin {"unborn", "done"} }

\* threads constructed so far
Born == { w \in RaceWorkers : rw[w] /= "unborn" }

\* a thread calls start_queue_process
RCallStart(s) ==
    /\ ~Terminated
    /\ spc[s] = "idle"
    /\ rcalls < MaxRaceCalls
    /\ rcalls' = rcalls + 1
    /\ spc' = [spc EXCEPT ![s] = "chk_proc"]
    /\ sret' = [sret EXCEPT ![s] = <<>>]
    /\ UNCHANGED <<QueueStop, isQueueActive, msgProc, snew, rw, rthread>>
    /\ UNCHANGED raceFrame

\* if (!msgProc) return tristate::ERROR;
RChkProc(s) ==
    /\ ~Terminated
    /\ spc[s] = "chk_proc"
    /\ IF msgProc = NoProc
       THEN /\ spc' = [spc EXCEPT ![s] = "idle"]
            /\ sret' = [sret EXCEPT ![s] = <<ERROR>>]
       ELSE /\ spc' = [spc EXCEPT ![s] = "chk_run"]
            /\ sret' = sret
    /\ UNCHANGED <<QueueStop, isQueueActive, msgProc, snew, rw, rthread,
                   rcalls>>
    /\ UNCHANGED raceFrame

\* if (isQueueRunning()) return tristate::ERROR;
RChkRun(s) ==
    /\ ~Terminated
    /\ spc[s] = "chk_run"
    /\ IF isQueueRunning
       THEN /\ spc' = [spc EXCEPT ![s] = "idle"]
            /\ sret' = [sret EXCEPT ![s] = <<ERROR>>]
       ELSE /\ spc' = [spc EXCEPT ![s] = "clear_stop"]
            /\ sret' = sret
    /\ UNCHANGED <<QueueStop, isQueueActive, msgProc, snew, rw, rthread,
                   rcalls>>
    /\ UNCHANGED raceFrame

\* QueueStop = false;
RClearStop(s) ==
    /\ ~Terminated
    /\ spc[s] = "clear_stop"
    /\ QueueStop' = FALSE
    /\ spc' = [spc EXCEPT ![s] = "construct"]
    /\ UNCHANGED <<isQueueActive, msgProc, sret, snew, rw, rthread, rcalls>>
    /\ UNCHANGED raceFrame

\* std::thread(&queued_process::queue_exec_process, this): the new thread
\* runs from here on
RConstruct(s) ==
    /\ ~Terminated
    /\ spc[s] = "construct"
    /\ rw' = [rw EXCEPT ![Cardinality(Born) + 1] = "entry"]
    /\ snew' = [snew EXCEPT ![s] = Cardinality(Born) + 1]
    /\ spc' = [spc EXCEPT ![s] = "assign"]
    /\ UNCHANGED <<QueueStop, isQueueActive, msgProc, sret, rthread, rcalls>>
    /\ UNCHANGED raceFrame

\* queue_thread = <the temporary>: move assignment to a joinable
\* std::thread calls std::terminate
RAssign(s) ==
    /\ ~Terminated
    /\ spc[s] = "assign"
    /\ IF rthread /= 0
       THEN /\ spc' = [spc EXCEPT ![s] = "terminated"]
            /\ rthread' = rthread
       ELSE /\ spc' = [spc EXCEPT ![s] = "mark"]
            /\ rthread' = snew[s]
    /\ UNCHANGED <<QueueStop, isQueueActive, msgProc, sret, snew, rw, rcalls>>
    /\ UNCHANGED raceFrame

\* isQueueActive = true; return (tristate::GOOD);
RMark(s) ==
    /\ ~Terminated
    /\ spc[s] = "mark"
    /\ isQueueActive' = TRUE
    /\ spc' = [spc EXCEPT ![s] = "idle"]
    /\ sret' = [sret EXCEPT ![s] = <<GOOD>>]
    /\ UNCHANGED <<QueueStop, msgProc, snew, rw, rthread, rcalls>>
    /\ UNCHANGED raceFrame

\* a thread calls stopQueue: QueueStop = true;
RStopSet(s) ==
    /\ ~Terminated
    /\ spc[s] = "idle"
    /\ Born /= {}
    /\ ~QueueStop
    /\ QueueStop' = TRUE
    /\ spc' = [spc EXCEPT ![s] = "stop_notify"]
    /\ UNCHANGED <<isQueueActive, msgProc, sret, snew, rw, rthread, rcalls>>
    /\ UNCHANGED raceFrame

\* stopQueue: cvQueue.notify_all();
RStopNotify(s) ==
    /\ ~Terminated
    /\ spc[s] = "stop_notify"
    /\ rw' = [w \in RaceWorkers |-> NotifyAll(rw[w])]
    /\ spc' = [spc EXCEPT ![s] = "idle"]
    /\ UNCHANGED <<QueueStop, isQueueActive, msgProc, sret, snew, rthread,
                   rcalls>>
    /\ UNCHANGED raceFrame

\* queue_exec_process in thread w, up to the point where it would take a
\* message: if (!msgProc) return; while (!QueueStop) { while (!isUpdated)
\* { lock; wait; empty = QueuedMessage.empty(); unlock;
\*   if (!isUpdated && QueueStop && empty) return; } ...
RWorkerPc(w) ==
    CASE rw[w] = "entry" -> IF msgProc = NoProc THEN "done" ELSE "outer"
      [] rw[w] = "outer" -> IF QueueStop THEN "done" ELSE "inner"
      [] rw[w] = "inner" -> IF isUpdated THEN "clear" ELSE "waiting"
      [] rw[w] = "woken" ->
            IF ~isUpdated /\ QueueStop /\ QueuedMessage = <<>>
            THEN "done" ELSE "inner"

RWorker(w) ==
    /\ ~Terminated
    /\ rw[w] \in {"entry", "outer", "inner", "woken"}
    /\ rw' = [rw EXCEPT ![w] = RWorkerPc(w)]
    /\ UNCHANGED <<QueueStop, isQueueActive, msgProc, spc, sret, snew,
                   rthread, rcalls>>
    /\ UNCHANGED raceFrame

\* cvQueue.wait returns without a notification
RWSpurious(w) ==
    /\ ~Terminated
    /\ rw[w] = "waiting"
    /\ rw' = [rw EXCEPT ![w] = "woken"]
    /\ UNCHANGED <<QueueStop, isQueueActive, msgProc, spc, sret, snew,
                   rthread, rcalls>>
    /\ UNCHANGED raceFrame

RaceNext ==
    \/ \E s \in Starters :
          \/ RCallStart(s) \/ RChkProc(s) \/ RChkRun(s) \/ RClearStop(s)
          \/ RConstruct(s) \/ RAssign(s) \/ RMark(s)
          \/ RStopSet(s) \/ RStopNotify(s)
    \/ \E w \in RaceWorkers : RWorker(w) \/ RWSpurious(w)

RaceSpec == RaceInit /\ [][RaceNext]_vars

\* ---- enh::timer --------------------------------------------------------
\* timer(): isTimerActive = false; clear_stop(); elapsed_cycles = 0;
\* start_timer();  -- the instance as the constructor leaves it, the timer
\* thread created and about to execute loop()
TimerInit ==
    /\ QueuedMessage = <<>>
    /\ isUpdated = FALSE
    /\ QueueStop = FALSE
    /\ isQueueActive = FALSE
    /\ msgProc = NoProc
    /\ wpc = "absent"
    /\ wEmpty = FALSE
    /\ front = NoMsg
    /\ wret = GOOD
    /\ cop = "none"
    /\ cpc = "absent"
    /\ cret = <<>>
    /\ ppc = [p \in Posters |-> "absent"]
    /\ nextId = 1
    /\ processed = <<>>
    /\ runBase = 0
    /\ starts = 0
    /\ snapOp = "none"
    /\ snap = {}
    /\ lateIds = {}
    /\ NoRace
    /\ NoTemplate
    /\ NoConfined
    /\ stopTimer = FALSE
    /\ isTimerActive = TRUE
    /\ elapsed_cycles = 0
    /\ tpc = "l_clear"
    /\ tlife = "live"
    /\ twop = [c \in Clients |-> "none"]
    /\ twpc = [c \in Clients |-> "idle"]
    /\ expected = [c \in Clients |-> 0]
    /\ tresult = [c \in Clients |-> <<>>]
    /\ tcret = [c \in Clients |-> <<>>]
    /\ tstops = 0
    /\ wfexp = [c \in Clients |-> 0]
    /\ tickv = 0
    /\ timer_next = 0
    /\ stopReq = FALSE

\* what no function of the timer writes
timerRest == <<queueVars, workerVars, ctlVars, ppc, histVars, raceVars,
               templateVars, confinedVars>>

\* what is written only by wait_for, by the tick, by loop() and by stop()
timerFrame == <<timerRest, wfexp, tickv, timer_next, stopReq>>

\* timerThread.joinable()
TJoinable == tpc /= "none"

\* the timer thread exists and has not returned from loop()
TimerAlive == tpc \notin {"absent", "none", "done"}

\* mtxTimer is held across steps by a thread that found the predicate of
\* cvTimer.wait true and has not yet returned from wait, and by the timer
\* thread in the middle of ++elapsed_cycles
MutexHeld == (\E c \in Clients : twpc[c] = "w_ret") \/ tpc = "tick_w"

\* a - b in unsigned long long: <<0, n>> is n; <<1, n>> is 2^64 - n, the
\* wrapped result when a < b
ULLSub(a, b) == IF a >= b THEN <<0, a - b>> ELSE <<1, b - a>>

\* -- the timer thread: loop() and single_period() --
\* clear_stop();
LClear ==
    /\ tlife = "live"
    /\ tpc = "l_clear"
    /\ stopTimer' = FALSE
    /\ tpc' = "l_reset"
    /\ UNCHANGED <<isTimerActive, elapsed_cycles, tlife, twop, twpc, expected,
                   tresult, tcret, tstops>>
    /\ UNCHANGED timerFrame

\* elapsed_cycles = 0; timer_start = now(); timer_next = timer_start + period
LReset ==
    /\ tlife = "live"
    /\ tpc = "l_reset"
    /\ elapsed_cycles' = 0
    /\ timer_next' = 1
    /\ tpc' = "l_test"
    /\ UNCHANGED <<stopTimer, isTimerActive, tlife, twop, twpc, expected,
                   tresult, tcret, tstops>>
    /\ UNCHANGED <<timerRest, wfexp, tickv, stopReq>>

\* while (!stopTimer.load())
LTest ==
    /\ tlife = "live"
    /\ tpc = "l_test"
    /\ tpc' = IF stopTimer THEN "done" ELSE "tick"
    /\ UNCHANGED <<stopTimer, isTimerActive, elapsed_cycles, tlife, twop,
                   twpc, expected, tresult, tcret, tstops>>
    /\ UNCHANGED timerFrame

\* sleep_until(timer_next); { lock_guard lock(mtxTimer); ++elapsed_cycles:
\* the increment reads elapsed_cycles here and writes it in LTickWrite;
\* start_timer writes elapsed_cycles without the mutex, so its write can
\* fall between the two.
LTick ==
    /\ tlife = "live"
    /\ tpc = "tick"
    /\ ~MutexHeld
    /\ elapsed_cycles < MaxTicks
    /\ tickv' = elapsed_cycles
    /\ tpc' = "tick_w"
    /\ UNCHANGED <<stopTimer, isTimerActive, elapsed_cycles, tlife, twop,
                   twpc, expected, tresult, tcret, tstops, wfexp>>
    /\ UNCHANGED <<timerRest, timer_next, stopReq>>

\* the value ++elapsed_cycles stores
Incremented(v) == v + 1

\* ++elapsed_cycles stores; timer_next += unit(period); } the mutex is
\* released
LTickWrite ==
    /\ tlife = "live"
    /\ tpc = "tick_w"
    /\ elapsed_cycles' = Incremented(tickv)
    /\ tickv' = 0
    /\ timer_next' = timer_next + 1
    /\ tpc' = "notify"
    /\ UNCHANGED <<stopTimer, isTimerActive, tlife, twop, twpc, expected,
                   tresult, tcret, tstops, wfexp>>
    /\ UNCHANGED <<timerRest, stopReq>>

\* cvTimer.notify_all();
LNotify ==
    /\ tlife = "live"
    /\ tpc = "notify"
    /\ twpc' = [c \in Clients |-> NotifyAll(twpc[c])]
    /\ tpc' = "l_test"
    /\ UNCHANGED <<stopTimer, isTimerActive, elapsed_cycles, tlife, twop,
                   expected, tresult, tcret, tstops>>
    /\ UNCHANGED timerFrame

TimerThread == LClear \/ LReset \/ LTest \/ LTick \/ LTickWrite \/ LNotify

\* -- the client threads --
TimerOps == {"wait(k)", "wait()", "start_timer", "stop", "join",
             "force_join", "isTimerCounting", "~timer"}

\* the first statement of each member function
TEntryOf(op) ==
    CASE op = "wait(k)"     -> "w_active"
      [] op = "wait()"      -> "w_read"
      [] op = "wait_for"    -> "wf_init"
      [] op = "isTimerCounting" -> "q_count"
      [] op = "start_timer" -> "st_count"
      [] op = "stop"        -> "stop_set"
      [] op = "join"        -> "j_count"
      [] op = "force_join"  -> "stop_set"
      [] op = "~timer"      -> "stop_set"

\* the arguments a call of op is made with
ArgsOf(op) == IF op \in {"wait(k)", "wait_for"} THEN 1..MaxTicks ELSE {0}

\* the client's position becomes pc, inside the same member function
Goto(c, pc) ==
    /\ twpc' = [twpc EXCEPT ![c] = pc]
    /\ UNCHANGED <<twop, tlife>>

\* the member function the client called returns; after the destructor the
\* instance is gone
TReturn(c) ==
    /\ twpc' = [twpc EXCEPT ![c] = "idle"]
    /\ twop' = [twop EXCEPT ![c] = "none"]
    /\ tlife' = IF twop[c] = "~timer" THEN "destroyed" ELSE tlife

\* a client calls a member function; the destructor is called when no other
\* thread is inside a member function, and no member function is called
\* once the destructor has begun
TCall(c, op, k) ==
    /\ tlife = "live"
    /\ twpc[c] = "idle"
    /\ \A d \in Clients : twop[d] /= "~timer"
    /\ op \in {"stop", "force_join"} => tstops < MaxStops
    /\ op = "~timer" => \A d \in Clients : twpc[d] = "idle"
    /\ twop' = [twop EXCEPT ![c] = op]
    /\ twpc' = [twpc EXCEPT ![c] = TEntryOf(op)]
    /\ expected' = [expected EXCEPT ![c] = k]
    /\ tresult' = [tresult EXCEPT ![c] = <<>>]
    /\ tcret' = [tcret EXCEPT ![c] = <<>>]
    /\ tstops' = IF op \in {"stop", "force_join"} THEN tstops + 1 ELSE tstops
    /\ UNCHANGED <<stopTimer, isTimerActive, elapsed_cycles, tpc, tlife>>
    /\ UNCHANGED timerFrame

\* wait(): return wait(elapsed_cycles + 1);  -- the argument is evaluated
TWRead(c) ==
    /\ tlife = "live"
    /\ twpc[c] = "w_read"
    /\ expected' = [expected EXCEPT ![c] = elapsed_cycles + 1]
    /\ Goto(c, "w_active")
    /\ UNCHANGED <<stopTimer, isTimerActive, elapsed_cycles, tpc, tresult,
                   tcret, tstops>>
    /\ UNCHANGED timerFrame

\* wait(expected): if (!isTimerActive) start_timer();
TWActive(c) ==
    /\ tlife = "live"
    /\ twpc[c] = "w_active"
    /\ Goto(c, IF ~isTimerActive THEN "st_count" ELSE "w_lock")
    /\ UNCHANGED <<stopTimer, isTimerActive, elapsed_cycles, tpc, expected,
                   tresult, tcret, tstops>>
    /\ UNCHANGED timerFrame

\* variant: the wait returns at any wake-up
WaitPred_Always(c) == TRUE

\* the predicate of cvTimer.wait
WaitPred(c) == elapsed_cycles >= expected[c]

\* unique_lock lock(mtxTimer); cvTimer.wait(lock, pred): with the mutex
\* held the predicate is evaluated; if false the thread blocks and releases
\* the mutex, if true wait returns with the mutex held.  The same happens
\* when a blocked thread has been woken.
TWLock(c) ==
    /\ tlife = "live"
    /\ twpc[c] \in {"w_lock", "woken"}
    /\ ~MutexHeld
    /\ Goto(c, IF WaitPred(c) THEN "w_ret" ELSE "waiting")
    /\ UNCHANGED <<stopTimer, isTimerActive, elapsed_cycles, tpc, expected,
                   tresult, tcret, tstops>>
    /\ UNCHANGED timerFrame

\* cvTimer.wait wakes without a notification
TWSpurious(c) ==
    /\ tlife = "live"
    /\ twpc[c] = "waiting"
    /\ Goto(c, "woken")
    /\ UNCHANGED <<stopTimer, isTimerActive, elapsed_cycles, tpc, expected,
                   tresult, tcret, tstops>>
    /\ UNCHANGED timerFrame

\* return (elapsed_cycles - expected);  and the mutex is released
TWRet(c) ==
    /\ tlife = "live"
    /\ twpc[c] = "w_ret"
    /\ IF twop[c] = "wait_for"
       THEN Goto(c, "wf_test") /\ tresult' = tresult
       ELSE /\ TReturn(c)
            /\ tresult' = [tresult EXCEPT
                              ![c] = ULLSub(elapsed_cycles, expected[c])]
    /\ expected' = [expected EXCEPT ![c] = 0]
    /\ UNCHANGED <<stopTimer, isTimerActive, elapsed_cycles, tpc,
                   tcret, tstops>>
    /\ UNCHANGED timerFrame

\* wait_for(mult_count, condition):
\* unsigned long long expected = elapsed_cycles + mult_count;
TWfInit(c) ==
    /\ tlife = "live"
    /\ twpc[c] = "wf_init"
    /\ wfexp' = [wfexp EXCEPT ![c] = elapsed_cycles + expected[c]]
    /\ expected' = [expected EXCEPT ![c] = 0]
    /\ Goto(c, "wf_test")
    /\ UNCHANGED <<stopTimer, isTimerActive, elapsed_cycles, tpc,
                   tresult, tcret, tstops, tickv>>
    /\ UNCHANGED <<timerRest, timer_next, stopReq>>

\* wait_for: while (elapsed_cycles < expected)
TWfTest(c) ==
    /\ tlife = "live"
    /\ twpc[c] = "wf_test"
    /\ Goto(c, IF elapsed_cycles < wfexp[c] THEN "wf_cond" ELSE "wf_ret")
    /\ UNCHANGED <<stopTimer, isTimerActive, elapsed_cycles, tpc, expected,
                   tresult, tcret, tstops>>
    /\ UNCHANGED timerFrame

\* wait_for: if (!condition()) return -1;  wait();  -- condition() returns b
TWfCond(c, b) ==
    /\ tlife = "live"
    /\ twpc[c] = "wf_cond"
    /\ IF b
       THEN Goto(c, "w_read") /\ tresult' = tresult
       ELSE TReturn(c) /\ tresult' = [tresult EXCEPT ![c] = <<0 - 1>>]
    /\ wfexp' = IF b THEN wfexp ELSE [wfexp EXCEPT ![c] = 0]
    /\ UNCHANGED <<stopTimer, isTimerActive, elapsed_cycles, tpc, expected,
                   tcret, tstops, tickv>>
    /\ UNCHANGED <<timerRest, timer_next, stopReq>>

\* wait_for: return elapsed_cycles - expected;  -- the unsigned difference
\* converted to long long, which is the signed difference
TWfRet(c) ==
    /\ tlife = "live"
    /\ twpc[c] = "wf_ret"
    /\ tresult' = [tresult EXCEPT ![c] = <<elapsed_cycles - wfexp[c]>>]
    /\ wfexp' = [wfexp EXCEPT ![c] = 0]
    /\ TReturn(c)
    /\ UNCHANGED <<stopTimer, isTimerActive, elapsed_cycles, tpc, expected,
                   tcret, tstops, tickv>>
    /\ UNCHANGED <<timerRest, timer_next, stopReq>>

\* isTimerCounting(), called by a client: if (isTimerActive)
\* { if (timerThread.joinable()) { join ... return false; } else return true; }
\* else return false;
TQueryCount(c) ==
    /\ tlife = "live"
    /\ twpc[c] = "q_count"
    /\ IF isTimerActive /\ TJoinable
       THEN Goto(c, "q_join") /\ tcret' = tcret
       ELSE TReturn(c) /\ tcret' = [tcret EXCEPT ![c] = <<isTimerActive>>]
    /\ UNCHANGED <<stopTimer, isTimerActive, elapsed_cycles, tpc, expected,
                   tresult, tstops>>
    /\ UNCHANGED timerFrame

\* stop(): stopTimer = true;  (also the first statement of force_join)
TStopSet(c) ==
    /\ tlife = "live"
    /\ twpc[c] = "stop_set"
    /\ stopTimer' = TRUE
    /\ stopReq' = TRUE
    /\ IF twop[c] = "stop" THEN TReturn(c) ELSE Goto(c, "j_count")
    /\ UNCHANGED <<isTimerActive, elapsed_cycles, tpc, expected, tresult,
                   tcret, tstops>>
    /\ UNCHANGED <<timerRest, wfexp, tickv, timer_next>>

\* start_timer has returned val: to its caller, or back inside wait
AfterStart(c, val) ==
    IF twop[c] = "start_timer"
    THEN TReturn(c) /\ tcret' = [tcret EXCEPT ![c] = <<val>>]
    ELSE Goto(c, "w_lock") /\ tcret' = tcret

\* start_timer: if (isTimerCounting()) return false;
\* isTimerCounting: if (isTimerActive) { if (timerThread.joinable())
\* { join ... return false; } else return true; } else return false;
TStartCount(c) ==
    /\ tlife = "live"
    /\ twpc[c] = "st_count"
    /\ IF isTimerActive
       THEN IF TJoinable
            THEN Goto(c, "st_join") /\ tcret' = tcret
            ELSE AfterStart(c, FALSE)
       ELSE Goto(c, "st_clear") /\ tcret' = tcret
    /\ UNCHANGED <<stopTimer, isTimerActive, elapsed_cycles, tpc, expected,
                   tresult, tstops>>
    /\ UNCHANGED timerFrame

\* join: if (isTimerCounting()) { timerThread.join(); isTimerActive = false; }
TJoinCount(c) ==
    /\ tlife = "live"
    /\ twpc[c] = "j_count"
    /\ IF isTimerActive
       THEN Goto(c, IF TJoinable THEN "j_counting" ELSE "j_join")
       ELSE TReturn(c)
    /\ UNCHANGED <<stopTimer, isTimerActive, elapsed_cycles, tpc, expected,
                   tresult, tcret, tstops>>
    /\ UNCHANGED timerFrame

\* variant: the join leaves isTimerActive as it was
ActiveAfterJoin_Kept == isTimerActive

\* isTimerActive = false;  after timerThread.join()
ActiveAfterJoin == FALSE

\* timerThread.join(); isTimerActive = false;  -- in isTimerCounting (called
\* from start_timer or from join) or in join itself.  join blocks until
\* loop() has returned; join on a thread that is not joinable throws out of
\* a noexcept function (std::terminate).
TJoinThread(c) ==
    /\ tlife = "live"
    /\ twpc[c] \in {"st_join", "j_counting", "j_join", "q_join"}
    /\ tpc \in {"none", "done"}
    /\ IF tpc = "none"
       THEN /\ tlife' = "terminated"
            /\ UNCHANGED <<tpc, isTimerActive, twop, twpc, tcret>>
       ELSE /\ tpc' = "none"
            /\ isTimerActive' = ActiveAfterJoin
            /\ IF twpc[c] = "st_join"
               THEN Goto(c, "st_clear")
               ELSE TReturn(c)
            /\ tcret' = IF twpc[c] = "q_join"
                        THEN [tcret EXCEPT ![c] = <<FALSE>>]
                        ELSE tcret
    /\ UNCHANGED <<stopTimer, elapsed_cycles, expected, tresult, tstops>>
    /\ UNCHANGED timerFrame

\* start_timer: clear_stop();
TStartClear(c) ==
    /\ tlife = "live"
    /\ twpc[c] = "st_clear"
    /\ stopTimer' = FALSE
    /\ stopReq' = FALSE
    /\ Goto(c, "st_reset")
    /\ UNCHANGED <<isTimerActive, elapsed_cycles, tpc, expected, tresult,
                   tcret, tstops>>
    /\ UNCHANGED <<timerRest, wfexp, tickv, timer_next>>

\* start_timer: elapsed_cycles = 0;
TStartReset(c) ==
    /\ tlife = "live"
    /\ twpc[c] = "st_reset"
    /\ elapsed_cycles' = 0
    /\ Goto(c, "st_spawn")
    /\ UNCHANGED <<stopTimer, isTimerActive, tpc, expected, tresult, tcret,
                   tstops>>
    /\ UNCHANGED timerFrame

\* start_timer: timerThread = std::thread(&timer::loop, this);
\* Assigning to a joinable std::thread calls std::terminate.
TStartSpawn(c) ==
    /\ tlife = "live"
    /\ twpc[c] = "st_spawn"
    /\ IF TJoinable
       THEN /\ tlife' = "terminated"
            /\ UNCHANGED <<tpc, twop, twpc>>
       ELSE /\ tpc' = "l_clear"
            /\ Goto(c, "st_mark")
    /\ UNCHANGED <<stopTimer, isTimerActive, elapsed_cycles, expected,
                   tresult, tcret, tstops>>
    /\ UNCHANGED timerFrame

\* start_timer: isTimerActive = true; return true;
TStartMark(c) ==
    /\ tlife = "live"
    /\ twpc[c] = "st_mark"
    /\ isTimerActive' = TRUE
    /\ AfterStart(c, TRUE)
    /\ UNCHANGED <<stopTimer, elapsed_cycles, tpc, expected, tresult, tstops>>
    /\ UNCHANGED timerFrame

ClientStep(c) ==
    \/ TWRead(c) \/ TWActive(c) \/ TWLock(c) \/ TWRet(c) \/ TStopSet(c)
    \/ TStartCount(c) \/ TJoinCount(c) \/ TJoinThread(c) \/ TStartClear(c)
    \/ TStartReset(c) \/ TStartSpawn(c) \/ TStartMark(c)
    \/ TQueryCount(c)

TimerNext ==
    \/ TimerThread
    \/ \E c \in Clients, op \in TimerOps : \E k \in ArgsOf(op) : TCall(c, op, k)
    \/ \E c \in Clients : ClientStep(c)
    \/ \E c \in Clients : TWSpurious(c)

TimerSpec == TimerInit /\ [][TimerNext]_vars

\* ---- enh::timer used by waiting threads ---------------------------------
\* The clients wait for ticks; one of them also stops and restarts the
\* clock.
WaiterOps == {"wait(k)", "wait()"}

RestartOps == {"start_timer", "stop"}

WaiterStep(c) ==
    \/ TWRead(c) \/ TWActive(c) \/ TWLock(c) \/ TWRet(c) \/ TStopSet(c)
    \/ TStartCount(c) \/ TJoinThread(c) \/ TStartClear(c)
    \/ TStartReset(c) \/ TStartSpawn(c) \/ TStartMark(c)

WaitersNext ==
    \/ TimerThread
    \/ \E c \in Clients, op \in WaiterOps : \E k \in ArgsOf(op) : TCall(c, op, k)
    \/ \E op \in RestartOps : TCall("c2", op, 0)
    \/ \E c \in Clients : WaiterStep(c)
    \/ \E c \in Clients : TWSpurious(c)

\* Scheduling: every thread that can take a step is eventually scheduled;
\* a thread that asks for mtxTimer gets it, because the timer thread sleeps
\* between two ticks with the mutex released and the clients hold it only to
\* evaluate a predicate.
TimerFairness ==
    /\ WF_vars(TimerThread)
    /\ SF_vars(LTick)
    /\ \A c \in Clients : WF_vars(WaiterStep(c)) /\ SF_vars(TWLock(c))

WaitersSpec == TimerInit /\ [][WaitersNext]_vars /\ TimerFairness

\* ---- enh::timer with wait_for -------------------------------------------
\* One thread waits with wait_for(n, condition) while another thread
\* controls the clock.
WaitForOps == TimerOps \ {"wait(k)", "wait()"}

WaitForStep(c) == TWfInit(c) \/ TWfTest(c) \/ TWfRet(c)

WaitForNext ==
    \/ TimerThread
    \/ \E k \in ArgsOf("wait_for") : TCall("c1", "wait_for", k)
    \/ \E op \in WaitForOps : TCall("c2", op, 0)
    \/ \E c \in Clients : ClientStep(c)
    \/ \E c \in Clients : TWSpurious(c)
    \/ \E c \in Clients : WaitForStep(c)
    \/ \E c \in Clients, b \in BOOLEAN : TWfCond(c, b)

WaitForSpec == TimerInit /\ [][WaitForNext]_vars

\* ---- either instance ----------------------------------------------------
\* A program that has constructed one of the two classes: a queued_process
\* used by its owner and the posting threads, or an enh::timer used by its
\* client threads.
LibInit == Init \/ TimerInit

LibNext == Next \/ TimerNext

LibSpec == LibInit /\ [][LibNext]_vars

\* ---- enh::timer<period, unit>: which instances can be made ------------
\* there is no queued_process instance
NoQueue ==
    /\ QueuedMessage = <<>>
    /\ isUpdated = FALSE
    /\ QueueStop = FALSE
    /\ isQueueActive = FALSE
    /\ msgProc = NoProc
    /\ wpc = "absent"
    /\ wEmpty = FALSE
    /\ front = NoMsg
    /\ wret = GOOD
    /\ cop = "none"
    /\ cpc = "absent"
    /\ cret = <<>>
    /\ ppc = [p \in Posters |-> "absent"]
    /\ nextId = 1
    /\ processed = <<>>
    /\ runBase = 0
    /\ starts = 0
    /\ snapOp = "none"
    /\ snap = {}
    /\ lateIds = {}

\* the types handed to the template as time_unit: the six std::chrono
\* durations up to hours, and a type that is no duration
Units == {"nanoseconds", "microseconds", "milliseconds", "seconds",
          "minutes", "hours", "int"}

Periods == 0..MaxPeriod

\* isGoodTimer_v<T>: false unless specialised
isGoodTimer_v(T) == T \in {"milliseconds", "seconds", "minutes", "hours"}

\* isGoodTimerType_v<T> = isGoodTimer_v<T>, specialised to true for
\* nanoseconds and microseconds
isGoodTimerType_v(T) ==
    IF T \in {"nanoseconds", "microseconds"} THEN TRUE ELSE isGoodTimer_v(T)

\* variant: no precision floor
ClassAsserts_NoFloor(p, T) == isGoodTimerType_v(T)

\* the two static_asserts in the body of class timer
ClassAsserts(p, T) ==
    /\ isGoodTimerType_v(T)
    /\ ~(T = "milliseconds" /\ p < 5)

\* the static_assert in the constructor
CtorAssert(T) == isGoodTimer_v(T)

\* a program names timer<period, unit>
TemplateInit ==
    /\ NoQueue
    /\ NoTimer
    /\ NoRace
    /\ NoConfined
    /\ unit \in Units
    /\ period \in Periods
    /\ inst = "named"

templateFrame == <<queueVars, workerVars, ctlVars, ppc, histVars, timerVars,
                   raceVars, confinedVars>>

\* the class timer<period, unit> is instantiated (a member is named, or an
\* object declared): its static_asserts are evaluated
Instantiate ==
    /\ inst = "named"
    /\ inst' = IF ClassAsserts(period, unit) THEN "instantiated"
               ELSE "ill-formed"
    /\ UNCHANGED <<unit, period>>
    /\ UNCHANGED templateFrame

\* an object is created: the constructor is instantiated and its
\* static_assert evaluated
Construct ==
    /\ inst = "instantiated"
    /\ inst' = IF CtorAssert(unit) THEN "constructed" ELSE "ill-formed"
    /\ UNCHANGED <<unit, period>>
    /\ UNCHANGED templateFrame

TemplateNext == Instantiate \/ Construct

TemplateSpec == TemplateInit /\ [][TemplateNext]_vars

\* ---- enh::confined_base<integral> ---------------------------------------
\* the types the template is instantiated with: a signed type, and the
\* unsigned type of enh::numeric::dec, cent and kilo
Types == {"int", "unsigned short"}

\* the conversion of x to value_type
Stored(ty, x) == IF ty = "unsigned short" THEN x % 65536 ELSE x

\* the limit checkers handed to the constructor: uLimit_pred(a) and
\* lLimit_pred(a) for the limits hi and lo (NumericSystem: a < limit with
\* uLimit() = limit - 1, and a >= 0 with lLimit() = 0)
UpperPred(hi, a) == a <= hi

LowerPred(lo, a) == a >= lo

\* the limits and values an instance is constructed with
Lowers(ty) == IF ty = "unsigned short" THEN 0..MaxLower
              ELSE (0 - MaxLower)..MaxLower

\* confined_base(upper_p, lower_p, upper_l, lower_l, val) has returned: the
\* limits are in order and val passed both checkers
ConfinedInit ==
    /\ NoQueue
    /\ NoTimer
    /\ NoRace
    /\ NoTemplate
    /\ integral \in Types
    /\ lLimit \in Lowers(integral)
    /\ uLimit \in lLimit..MaxUpper
    /\ value \in lLimit..uLimit
    /\ cbop = "none"
    /\ cbarg = 0
    /\ cbret = 0
    /\ cbout = "returned"
    /\ cbcalls = 0

confinedFrame == <<queueVars, workerVars, ctlVars, ppc, histVars, timerVars,
                   raceVars, templateVars>>

\* a member function is called with argument a: value becomes v, and the
\* call ends as out, returning r
Called(op, a, v, r, out) ==
    /\ cbout \in {"returned", "threw"}
    /\ cbcalls < MaxCalls
    /\ cbcalls' = cbcalls + 1
    /\ cbop' = op
    /\ cbarg' = a
    /\ value' = v
    /\ cbret' = r
    /\ cbout' = out
    /\ UNCHANGED <<integral, uLimit, lLimit>>
    /\ UNCHANGED confinedFrame

\* the values set can be called with
SetArgs ==
    {a \in (lLimit - 1)..(uLimit + 1) : integral = "unsigned short" => a >= 0}

\* set(val): throws if a checker rejects val, else value = val
CSet(a) ==
    IF ~UpperPred(uLimit, a) \/ ~LowerPred(lLimit, a)
    THEN Called("set", a, value, 0, "threw")
    ELSE Called("set", a, a, 0, "returned")

\* add(): ++value; if (!uLimit_pred(value)) { value = lLimit(); return 1; }
\* return 0;   -- the pair <<value, returned>>
AddOne(ty, lo, hi, v) ==
    LET w == Stored(ty, v + 1)
    IN  IF ~UpperPred(hi, w) THEN <<lo, 1>> ELSE <<w, 0>>

\* sub(): --value; if (!lLimit_pred(value)) { value = uLimit(); return 1; }
\* return 0;
SubOne(ty, lo, hi, v) ==
    LET w == Stored(ty, v - 1)
    IN  IF ~LowerPred(lo, w) THEN <<hi, 1>> ELSE <<w, 0>>

\* add(additional) after rem and ret have been computed
AddTail(ty, lo, hi, v, rem, ret) ==
    IF ~UpperPred(hi, v + rem)
    THEN <<Stored(ty, v + rem + lo - hi - 1), ret + 1>>
    ELSE <<Stored(ty, v + rem), ret>>

\* sub(difference) after rem and ret have been computed
SubTail(ty, lo, hi, v, rem, ret) ==
    LET d == v - rem
    IN  IF ~LowerPred(lo, d)
        THEN <<Stored(ty, d + hi - lo + 1), ret + 1>>
        ELSE <<Stored(ty, d), ret>>

\* rem = n % (uLimit() - lLimit()) and ret = n / (uLimit() - lLimit()) as
\* pairs <<rem, ret>>.  With equal limits the divisor is 0 and the behaviour
\* is undefined: the division traps (x86), or it yields the quotient 0 and
\* the remainder n (AArch64); the trap is the second disjunct of CAddN and
\* CSubN.
Divided(n, lo, hi) ==
    IF hi = lo
    THEN {<<n, 0>>}
    ELSE {<<n % (hi - lo), n \div (hi - lo)>>}

CAdd ==
    LET r == AddOne(integral, lLimit, uLimit, value)
    IN  Called("add()", 0, r[1], r[2], "returned")

CInc ==
    LET r == AddOne(integral, lLimit, uLimit, value)
    IN  Called("++", 0, r[1], r[2], "returned")

CSub ==
    LET r == SubOne(integral, lLimit, uLimit, value)
    IN  Called("sub()", 0, r[1], r[2], "returned")

CDec ==
    LET r == SubOne(integral, lLimit, uLimit, value)
    IN  Called("--", 0, r[1], r[2], "returned")

\* add(additional)
CAddN(n) ==
    IF n = 0
    THEN Called("add(n)", n, value, 0, "returned")
    ELSE \/ \E d \in Divided(n, lLimit, uLimit) :
               LET r == AddTail(integral, lLimit, uLimit, value, d[1], d[2])
               IN  Called("add(n)", n, r[1], r[2], "returned")
         \/ uLimit = lLimit /\ Called("add(n)", n, value, 0, "trapped")

\* sub(difference)
CSubN(n) ==
    IF n = 0
    THEN Called("sub(n)", n, value, 0, "returned")
    ELSE \/ \E d \in Divided(n, lLimit, uLimit) :
               LET r == SubTail(integral, lLimit, uLimit, value, d[1], d[2])
               IN  Called("sub(n)", n, r[1], r[2], "returned")
         \/ uLimit = lLimit /\ Called("sub(n)", n, value, 0, "trapped")

\* operator <= (lhs, rhs) on the values compared: return (lhs.get() <
\* rhs.get()), return (lhs.get() < rhs) and return (lhs < rhs.get())
LessEq(l, r) == l < r

\* the integers (and the values of other instances) the value is compared
\* with
CompareArgs == (lLimit - 1)..(uLimit + 1)

\* (*this <= a), a an integer or the value of another instance; the result
\* is returned as 1 (true) or 0 (false)
CLessEq(a) ==
    Called("<=", a, value, IF LessEq(value, a) THEN 1 ELSE 0, "returned")

\* (a <= *this)
CLessEqRev(a) ==
    Called("<=rev", a, value, IF LessEq(a, value) THEN 1 ELSE 0, "returned")

ConfinedNext ==
    \/ \E a \in CompareArgs : CLessEq(a)
    \/ \E a \in CompareArgs : CLessEqRev(a)
    \/ \E a \in SetArgs : CSet(a)
    \/ CAdd
    \/ CInc
    \/ CSub
    \/ CDec
    \/ \E n \in 0..MaxArg : CAddN(n)
    \/ \E n \in 0..MaxArg : CSubN(n)

ConfinedSpec == ConfinedInit /\ [][ConfinedNext]_vars

\* ---- claims -------------------------------------------------------------
\* the processing function returned a fatal (non-GOOD) result on m
Fatal(m) == Not(msgProcApply(m))

\* positions in 'processed' of the current (or last) run of the worker
RunIdx == (runBase + 1)..Len(processed)

\* the owner's call of 'op' returns in this step
Returns(op) == cop = op /\ cop' = "none"

\* C1: messages are passed to the processing function in the order in which
\* postMessage appended them (identities are given in append order), and
\* the first worker sees exactly the messages posted so far, from the first
\* on, in that order.
C1_FIFO ==
    /\ \A i, j \in DOMAIN processed :
          i < j => processed[i][1] < processed[j][1]
    /\ starts <= 1 => \A i \in DOMAIN processed : processed[i][1] = i

\* C1 witness: the first worker has been handed three messages.
C1_Witness == starts = 1 /\ Len(processed) >= 3

\* C2: no message is passed to the processing function twice, and a message
\* is out of the backlog before (and after) the processing function gets it.
C2_AtMostOnce ==
    /\ \A i, j \in DOMAIN processed :
          i /= j => processed[i][1] /= processed[j][1]
    /\ wpc = "proc" => front[1] \notin Ids(QueuedMessage)
    /\ ProcessedIds \cap Ids(QueuedMessage) = {}

\* C2 witness: the worker is about to invoke the processing function on its
\* second message or later while a postMessage is between push and notify.
C2_Witness ==
    /\ wpc = "proc"
    /\ Len(processed) >= 1
    /\ \E p \in Posters : ppc[p] = "notify"
    /\ QueuedMessage /= <<>>

\* C3: after stopQueue on a started queue the worker does not exit (other
\* than on a fatal result) before every message pending at that call has
\* been passed to the processing function.
C3_GracefulDrain ==
    (snapOp = "stopQueue" /\ wpc = "done" /\ wret = GOOD)
        => snap \subseteq ProcessedIds

\* C4: no message that was in the backlog when force_join set the stop flag
\* is passed to the processing function afterwards (not counting the one
\* message the worker had already committed to take at that moment).
C4_Abandonment ==
    snapOp = "force_join" => snap \cap ProcessedIds = {}

\* C5: force_join called on a running queue eventually returns, whatever the
\* interleaving of its stop request (flag, then notify) with the worker.
C5_ForceJoinTerminates ==
    (cop = "force_join" /\ cpc = "stop_set") ~> (cop /= "force_join")

\* C6: every message posted while the worker is running with no stop
\* requested is eventually passed to the processing function (unless a stop
\* is requested or the worker exits on a fatal result first), without any
\* further call being needed.
C6_NoMissedWakeup ==
    \A id \in 1..MaxPosts :
        (id \in Ids(QueuedMessage) /\ WorkerAlive /\ ~QueueStop)
            ~> (id \in ProcessedIds \/ QueueStop \/ ~WorkerAlive)

C8_DrainComplete ==
    (snapOp = "safe_join" /\ cop = "none") =>
        \A id \in snap :
            Cardinality({i \in DOMAIN processed : processed[i][1] = id}) = 1

\* C8 witness: safe_join has returned after being called with at least two
\* messages pending, posted by two threads of which one had not yet
\* reached its notify.
C8_Witness ==
    /\ snapOp = "safe_join" /\ cop = "none"
    /\ Cardinality(snap) >= 2
    /\ snap \subseteq ProcessedIds

\* C9: when the processing function returns a fatal result the worker exits
\* at once: the fatal message is the last one processed in that run, with
\* whatever is behind it left unprocessed.
C9_FatalStopsRun ==
    \A i \in RunIdx :
        Fatal(processed[i]) => (i = Len(processed) /\ ~WorkerAlive)

\* C9 witness: the second message of a run was fatal and the worker has
\* exited with a message still behind it in the backlog.
C9_Witness ==
    /\ wpc = "done" /\ wret = ERROR
    /\ Len(processed) = runBase + 2
    /\ QueuedMessage /= <<>>

\* a fatal result has been returned on this instance
FatalSeen == \E i \in DOMAIN processed : Fatal(processed[i])

\* the worker exited on a fatal result and has not been joined
FatalUnjoined == wpc = "done" /\ wret = ERROR

OwnerSteps == cpc' /= cpc

\* C11: once the worker has exited on a fatal result, isQueueRunning()
\* reports false without the caller having to join first.
C11_FatalObservable == FatalUnjoined => ~isQueueRunning

\* C12: start_queue_process called while the queue is running (started and
\* not joined since) returns tristate::ERROR and changes nothing: the stop
\* flag, the backlog, the flags and the worker thread are as before.
C12_SecondStartRefused ==
    [][(cpc = "start_check" /\ OwnerSteps /\ isQueueRunning) =>
          /\ cret' = <<ERROR>>
          /\ cop' = "none" /\ cpc' = "idle"
          /\ UNCHANGED <<queueVars, workerVars, starts>>
      ]_vars

\* C12 witness: a start has been refused with ERROR while the worker of the
\* earlier start is alive.
C12_Witness ==
    /\ cret = <<ERROR>> /\ cpc = "idle"
    /\ isQueueRunning /\ WorkerAlive
    /\ starts = 1

\* C14: start_queue_process with no processing function installed returns
\* tristate::ERROR and changes nothing: no thread is spawned,
\* isQueueRunning() stays false, backlog and stop flag are as before.
C14_NoProcStartRefused ==
    [][(cpc = "start_check" /\ OwnerSteps /\ msgProc = NoProc) =>
          /\ cret' = <<ERROR>>
          /\ cop' = "none" /\ cpc' = "idle"
          /\ ~isQueueRunning'
          /\ wpc' = "none"
          /\ UNCHANGED <<queueVars, workerVars, starts>>
      ]_vars

\* C14 witness: a start has been refused with ERROR on an instance without
\* processing function whose backlog holds messages and whose stop flag is
\* set.
C14_Witness ==
    /\ cret = <<ERROR>> /\ cpc = "idle"
    /\ msgProc = NoProc
    /\ QueuedMessage /= <<>>
    /\ QueueStop

\* s is an initial part of t
IsPrefix(s, t) == Len(s) <= Len(t) /\ SubSeq(t, 1, Len(s)) = s

\* C16 as claimed, for the messages posted after the worker has exited,
\* whether or not it has been joined yet: as long as no worker has been
\* started again they are in the backlog.
C16_PostWhileStopped ==
    ~WorkerAlive => lateIds \subseteq Ids(QueuedMessage)

\* C16 amended: while no worker thread exists and no WaitForQueueStop is in
\* progress (before the first start, or after a join), the backlog only
\* grows at its end and a non-empty backlog has isUpdated set, so that the
\* worker of the next start finds it.
C16_PostWhileNoThread ==
    [][(wpc = "none" /\ cpc /= "wfs_clear") =>
          /\ IsPrefix(QueuedMessage, QueuedMessage')
          /\ QueuedMessage' /= <<>> => isUpdated'
      ]_vars

\* C16 witness: after a worker was joined, two messages posted since are
\* waiting in the backlog for the next start.
C16_Witness ==
    /\ starts >= 1 /\ wpc = "none" /\ cpc = "idle"
    /\ Len(QueuedMessage) >= 2

\* C13: at most one worker thread of an instance is alive at any time,
\* also when start_queue_process is called from several threads at once.
C13_SingleWorker == Cardinality(AliveWorkers) <= 1

\* C15, the case the claim singles out: while the worker is running a call
\* of RegisterProc leaves the installed processing function as it is, so
\* the worker applies the same function to later items.
C15_RegisterNoOp ==
    [][(WorkerAlive /\ msgProc /= NoProc) => msgProc' = msgProc]_vars

\* C19: wait(k) returns only in a state where elapsed_cycles >= k, and the
\* value it returns is elapsed_cycles - k, which is not negative.
C19_Overshoot ==
    [][\A c \in Clients :
          (twpc[c] = "w_ret" /\ twpc'[c] = "idle") =>
             /\ elapsed_cycles >= expected[c]
             /\ tresult'[c] = <<0, elapsed_cycles - expected[c]>>
      ]_vars

\* a client called wait() on a clock that was not active, and its wait()
\* has reset the count and starts the clock thread
RestartsInWait(c) ==
    /\ twop[c] = "wait()"
    /\ twpc[c] \in {"st_spawn", "st_mark"}

OthersIdle(c) == \A d \in Clients \ {c} : twpc[d] = "idle"

\* C18: a join returns at once and changes nothing when there is no worker
\* thread; whenever it returns there is no worker thread and the running
\* flag is false, so a second join is of the first kind.  For the timer
\* this is join() called while no other thread is inside a member function.
C18_JoinIdempotent ==
    [][/\ (cop = "WaitForQueueStop" /\ cpc = "wfs_check" /\ wpc = "none"
              /\ OwnerSteps) =>
             cop' = "none" /\ UNCHANGED <<queueVars, workerVars>>
       /\ Returns("WaitForQueueStop") => wpc' = "none" /\ ~isQueueActive'
       /\ \A c \in Clients :
             /\ (twop[c] = "join" /\ twpc[c] = "j_count" /\ tpc = "none"
                    /\ twpc'[c] /= twpc[c]) =>
                   /\ twop'[c] = "none"
                   /\ UNCHANGED <<stopTimer, isTimerActive, elapsed_cycles,
                                  tpc>>
             /\ (twop[c] = "join" /\ twop'[c] = "none" /\ OthersIdle(c)) =>
                   tpc' = "none" /\ ~isTimerActive'
      ]_vars

\* C18 witness: WaitForQueueStop, called directly, has joined a worker that
\* had processed a message and is about to return.
C18_Witness ==
    /\ cop = "WaitForQueueStop" /\ cpc = "wfs_clear"
    /\ wpc = "none" /\ processed /= <<>>

\* C21: wait_for(n, condition), called when the count is c, returns either
\* -1, in the step in which condition() returned false, or, from its last
\* statement, the overshoot elapsed_cycles - (c + n) in a state where
\* elapsed_cycles >= c + n; so the overshoot is not negative and -1 is
\* returned only for a false condition.
C21_WaitFor ==
    [][\A c \in Clients :
          (twop[c] = "wait_for" /\ twop'[c] = "none") =>
             \/ twpc[c] = "wf_cond" /\ tresult'[c] = <<0 - 1>>
             \/ /\ twpc[c] = "wf_ret"
                /\ elapsed_cycles >= wfexp[c]
                /\ tresult'[c] = <<elapsed_cycles - wfexp[c]>>
      ]_vars

\* C22: a call of start_timer that finds the timer thread running returns
\* false in its next step, and that step leaves the thread, the cycle count
\* and the stop flag as they were.
C22_StartWhileRunning ==
    [][\A c \in Clients :
          (/\ twop[c] = "start_timer" /\ twpc[c] = "st_count"
           /\ TimerAlive
           /\ twpc'[c] /= "st_count")
             => /\ twop'[c] = "none"
                /\ tcret'[c] = <<FALSE>>
                /\ UNCHANGED <<tpc, elapsed_cycles, stopTimer>>
      ]_vars

\* C23: force_join (and the destructor) returns in every interleaving with
\* the timer thread: while it is waiting for the thread to exit and no other
\* thread is using the timer, the stop request it made is still in force or
\* the timer thread has exited; otherwise nothing ends the loop and the join
\* never returns.
C23_ForceJoinReturns ==
    \A c \in Clients :
       (/\ twop[c] \in {"force_join", "~timer"}
        /\ twpc[c] \in {"j_count", "j_counting"}
        /\ OthersIdle(c))
          => stopTimer \/ ~TimerAlive

\* C24: the cycle count changes only in two ways: the timer thread's tick
\* stores the previous count plus one, and the count is set to 0 by
\* start_timer or by the first statements of a freshly started loop(); it
\* never decreases otherwise.
C24_CycleMonotone ==
    [][elapsed_cycles' /= elapsed_cycles =>
          \/ tpc = "tick_w" /\ elapsed_cycles' = elapsed_cycles + 1
          \/ /\ elapsed_cycles' = 0
             /\ tpc = "l_reset" \/ \E c \in Clients : twpc[c] = "st_reset"
      ]_vars

\* C25: a thread blocked in wait(k) whose target has been reached (the
\* cycle count is at least k) eventually returns from wait, unless the
\* clock is stopped or the program is terminated meanwhile; this holds for
\* every blocked thread, whatever the other threads wait for.
C25_WaitersReleased ==
    \A c \in Clients :
       (twpc[c] = "waiting" /\ WaitPred(c))
          ~> (twop[c] = "none" \/ stopTimer \/ tlife /= "live")

\* C25 witness: both clients are blocked in wait with different targets,
\* the tick that reaches the lower target has been counted and its
\* notify_all is about to run.
C25_Witness ==
    /\ twop = [c \in Clients |-> "wait(k)"]
    /\ twpc = [c \in Clients |-> "waiting"]
    /\ expected["c1"] < expected["c2"]
    /\ WaitPred("c1") /\ ~WaitPred("c2")
    /\ tpc = "notify" /\ ~stopTimer

\* C26: a call of wait that finds the timer thread not running (it has
\* exited after a stop, or has been joined) calls start_timer before it
\* blocks.
C26_WaitStartsStoppedClock ==
    [][\A c \in Clients :
          (/\ twop[c] \in {"wait(k)", "wait()"} /\ twpc[c] = "w_active"
           /\ ~TimerAlive
           /\ twpc'[c] /= "w_active")
             => twpc'[c] = "st_count"
      ]_vars

\* C28: a call of isTimerCounting returns in its first step, with the value
\* "the timer thread exists and no stop has been requested", and leaves the
\* state of the timer as it was.
C28_PureStatusQuery ==
    [][\A c \in Clients :
          (/\ twop[c] = "isTimerCounting" /\ twpc[c] = "q_count"
           /\ twpc'[c] /= "q_count")
             => /\ twop'[c] = "none"
                /\ tcret'[c] = <<TimerAlive /\ ~stopTimer>>
                /\ UNCHANGED <<tpc, isTimerActive, stopTimer, elapsed_cycles>>
      ]_vars

\* C27: when the attempt to create a timer<period, unit> object has been
\* decided, the object exists exactly if unit is milliseconds, seconds,
\* minutes or hours and it is not milliseconds with a period below 5; in
\* particular never for nanoseconds or microseconds, and for every period
\* with seconds, minutes and hours.
C27_UnitValidation ==
    inst \in {"constructed", "ill-formed"} =>
       (inst = "constructed" <=>
           /\ unit \in {"milliseconds", "seconds", "minutes", "hours"}
           /\ ~(unit = "milliseconds" /\ period < 5))

\* C27 witness: a timer of 5 milliseconds has been constructed.
C27_Witness == inst = "constructed" /\ unit = "milliseconds" /\ period = 5

\* the value and the number of wrap-arounds after n calls of add()
RECURSIVE AddRepeated(_, _, _, _, _)
AddRepeated(ty, lo, hi, v, n) ==
    IF n = 0 THEN <<v, 0>>
    ELSE LET r == AddOne(ty, lo, hi, v)
             s == AddRepeated(ty, lo, hi, r[1], n - 1)
         IN  <<s[1], r[2] + s[2]>>

\* the value and the number of wrap-arounds after n calls of sub()
RECURSIVE SubRepeated(_, _, _, _, _)
SubRepeated(ty, lo, hi, v, n) ==
    IF n = 0 THEN <<v, 0>>
    ELSE LET r == SubOne(ty, lo, hi, v)
             s == SubRepeated(ty, lo, hi, r[1], n - 1)
         IN  <<s[1], r[2] + s[2]>>

\* C29: with lLimit < uLimit, add(n) leaves the value that n calls of add()
\* leave and returns the sum of what they return, and sub(n) does the same
\* with respect to n calls of sub().
C29_AddAgreesWithSteps ==
    [][(lLimit < uLimit /\ cbout' = "returned") =>
          /\ cbop' = "add(n)" =>
                <<value', cbret'>> =
                    AddRepeated(integral, lLimit, uLimit, value, cbarg')
          /\ cbop' = "sub(n)" =>
                <<value', cbret'>> =
                    SubRepeated(integral, lLimit, uLimit, value, cbarg')
      ]_vars

\* C30: after every sequence of set, add(), add(n), sub(), sub(n), ++ and --
\* the value is within the limits, and a set that threw left the value as it
\* was.
C30_StaysConfined ==
    /\ [](cbout \in {"returned", "threw"} =>
             lLimit <= value /\ value <= uLimit)
    /\ [][(cbop' = "set" /\ cbout' = "threw") => value' = value]_vars

\* C38: every timer<period, unit> object that can be created has a period
\* greater than 0.
C38_PositivePeriod == inst = "constructed" => period > 0

\* C31: operator <= returns true exactly when its left operand is less than
\* or equal to its right operand, whichever of the two is the confined
\* value.
C31_LessEq ==
    [][/\ (cbop' = "<=" /\ cbcalls' = cbcalls + 1) =>
             (cbret' = 1 <=> (value < cbarg' \/ value = cbarg'))
       /\ (cbop' = "<=rev" /\ cbcalls' = cbcalls + 1) =>
             (cbret' = 1 <=> (cbarg' < value \/ cbarg' = value))
      ]_vars

\* C34: the cycle count is written only by a thread that holds mtxTimer:
\* whenever its value changes, the timer thread is inside the locked block
\* of single_period (the only place where the count is written with the
\* mutex held).
C34_CountUnderLock ==
    [][elapsed_cycles' /= elapsed_cycles => tpc = "tick_w"]_vars


\* C39: with a single worker, the worker never takes front()/pop() from an
\* empty backlog: whenever it is about to take an item, the backlog holds one.
C39_PopNonEmpty ==
    wpc = "pop" => QueuedMessage /= <<>>

C39_Witness ==
    /\ wpc = "pop"
    /\ Len(QueuedMessage) = 1
    /\ Len(processed) = 1


\* C36: when WaitForQueueStop returns after having joined a worker, the
\* backlog is empty, the stop flag and the running flag are false and
\* start_queue_process would not refuse; and whenever a worker has just
\* been spawned, the stop flag is false, so no earlier stop request is
\* left for it.
C36_JoinResets ==
    /\ [][(cpc = "wfs_clear" /\ cpc' /= "wfs_clear")
             => /\ QueuedMessage' = <<>>
                /\ ~QueueStop'
                /\ ~isQueueActive'
                /\ msgProc' /= NoProc]_vars
    /\ [](cpc = "start_mark" => ~QueueStop)

\* a second worker runs after WaitForQueueStop joined the first one, which
\* had processed a message
C36_Witness ==
    /\ starts = 2
    /\ cop = "none"
    /\ cret = <<GOOD>>
    /\ wpc = "waiting"
    /\ runBase >= 1


WaitLoop == {"inner", "wait_enter", "waiting", "woken", "chk_upd", "chk_stop"}

\* C35: a wake-up alone releases nobody.  The queue worker leaves its wait
\* loop only by returning when a stop was requested, or towards the drain
\* loop when a post has set the update flag; a thread in wait(k) comes out
\* of the condition-variable wait only when the count has reached k.
C35_SpuriousAbsorbed ==
    [][/\ (wpc \in WaitLoop /\ wpc' \notin WaitLoop)
            => \/ wpc' = "done" /\ QueueStop
               \/ wpc' = "clear" /\ isUpdated
       /\ \A c \in Clients :
            (twpc[c] \in {"w_lock", "waiting", "woken"} /\ twpc'[c] = "w_ret")
                => elapsed_cycles >= expected[c]
      ]_vars

\* a thread blocked in wait(k) has been woken after a tick although the
\* count is still below k
C35_Witness ==
    /\ twpc["c1"] = "woken"
    /\ elapsed_cycles >= 1
    /\ elapsed_cycles < expected["c1"]


\* C32: once stop() has been called, the worker ends at its next test of
\* the stop flag: it completes at most the tick it was sleeping toward,
\* then leaves the loop, so the count rises by at most one and no further
\* notification follows.
C32_StopBoundsTicks ==
    [][(stopReq /\ tpc = "l_test" /\ tpc' /= "l_test") => tpc' = "done"]_vars

\* the worker has entered its loop and is between two locked blocks
TimerLooping == tpc \in {"l_test", "tick", "notify"}

\* C33: while the worker is in its loop and the mutex is free, the next
\* wake time is the start time plus (count + 1) periods.
C33_DriftFree ==
    (TimerLooping /\ ~MutexHeld) => timer_next = elapsed_cycles + 1

=============================================================================
